---- MODULE Spec2Model ----
(***************************************************************************)
(* Model of taxi-pipeline/taxi_pipeline.py: a dlt REST source with one     *)
(* resource ("taxi") paged by a page_number paginator (base_page 1, no     *)
(* total_path), run once per execution of the script into a duckdb         *)
(* dataset.                                                                *)
(*                                                                         *)
(* The script holds the configuration and the single pipeline.run call;    *)
(* the HTTP endpoint is the environment.  The endpoint is a fixed but      *)
(* arbitrary mapping from page index to response, chosen in Init.          *)
(*                                                                         *)
(* Two things the script does not fix are modelled as follows.             *)
(*  - When the rows of a fetched page reach the destination table: the     *)
(*    script only calls pipeline.run, so rows fetched by a run are held in *)
(*    `buffer` and may be written to the table at any moment of the run    *)
(*    (action Load), and are all written when the run completes.           *)
(*  - A "request" is one step of the paginator; what the HTTP transport    *)
(*    does below that step is not represented.                             *)
(***************************************************************************)
EXTENDS Integers, Sequences, FiniteSets, TLC

\* ------------------------------------------------------------------ bounds
\* Page indices 1..MaxPages have individually chosen responses; every index
\* above has the endpoint's `tail` response.
MaxPages == 3
\* Largest number of records in one page.
MaxPageSize == 2
\* Executions of the script against the same endpoint.
MaxRuns == 2
\* The page counter is unbounded in the program; the model stops issuing
\* requests above this index.
PageCap == MaxPages + 2

\* ----------------------------------------------------------- configuration
\* "base_page": 1
BasePage == 1
\* "total_path": None
TotalPath == "None"

\* -------------------------------------------------------------- responses
Page(n) == [kind |-> "page", n |-> n]
Unreachable == [kind |-> "unreachable", n |-> 0]
NonJson == [kind |-> "nonjson", n |-> 0]
NoResponse == [kind |-> "none", n |-> 0]

Responses == {Page(n) : n \in 0..MaxPageSize} \cup {Unreachable, NonJson}

\* The endpoints: a response per page index, the response of every higher
\* index, and a total-count value carried by every body.
Endpoints ==
  [data : [1..MaxPages -> Responses],
   tail : {Page(0), Page(1)},
   total : {1, 2}]

VARIABLES
  endpoint,    \* the REST endpoint's data (environment, fixed for all runs)
  pc,          \* "idle" | "request" | "inflight" | "done" | "failed"
  runs,        \* executions of the script started so far
  page,        \* the paginator's current page index
  requests,    \* page indices requested by the current run, in order
  last,        \* the last response received by the current run
  buffer,      \* rows fetched by the current run and not yet in the table
  table,       \* rows of taxi_data.taxi, in insertion order
  runStart,    \* Len(table) when the current run started
  error,       \* "none" | "NetworkError" | "DecodeError"
  load_info    \* what run returned: NoInfo until a run completes

vars == <<endpoint, pc, runs, page, requests, last, buffer, table, runStart,
          error, load_info>>

\* The response of the endpoint to a request for page index i.
RespAt(i) ==
  IF i \in DOMAIN endpoint.data THEN endpoint.data[i] ELSE endpoint.tail

\* The records of page p: record k of page p is <<p, k>>.
Rows(p, n) == [k \in 1..n |-> <<p, k>>]

\* ----------------------------------------------------------- the paginator
\* The paginator starts at base_page.
InitPage == BasePage

\* Mutant: the page index does not advance past the second page.
NextPageBack(p) == IF p > BasePage THEN p - 1 ELSE p + 1
\* Mutant: every other page is skipped.
NextPageSkip(p) == p + 2
\* page_number: the next request carries the next page index.
NextPage(p) == p + 1

\* Mutant: a total count in the body stops the loop (total_path set).
HasNextPageTotal(resp, p, total) == resp.n > 0 /\ p < total
\* Mutant: an empty page is passed over while the total says more exists.
HasNextPageFallback(resp, p, total) == resp.n > 0 \/ p < total
\* Mutant: a maximum page count stops the loop (maximum_page set).
HasNextPageMaximum(resp, p, total) == resp.n > 0 /\ p < MaxPages
\* total_path None: the loop stops when an empty page is returned, and on
\* nothing else; the body's total count is not read.
HasNextPage(resp, p, total) ==
  IF TotalPath = "None" THEN resp.n > 0 ELSE resp.n > 0 /\ p < total

\* -------------------------------------------------------------- the loader
\* Mutant: the table is replaced by the rows written.
WriteReplace(tbl, rows) == rows
\* No write disposition is configured: rows are appended to the table.
Write(tbl, rows) == tbl \o rows

\* ------------------------------------------------------------------ errors
\* Mutant: the failure is swallowed and the run ends as if the page was empty.
FatalSwallowed(resp) == FALSE
\* pipeline.run is called with no handler around it: a failed request ends
\* the script.
Fatal(resp) == resp.kind \in {"unreachable", "nonjson"}

\* The spec's names of the two failures.
ErrorOf(resp) ==
  IF resp.kind = "unreachable" THEN "NetworkError" ELSE "DecodeError"

\* ----------------------------------------------------------------- summary
NoInfo == [loaded |-> -1, pages |-> -1]
\* The Summary of a completed run: records loaded and pages fetched.
Summary(loaded, pages) == [loaded |-> loaded, pages |-> pages]

\* -------------------------------------------------------------------- Init
Init ==
  /\ endpoint \in Endpoints
  /\ pc = "idle"
  /\ runs = 0
  /\ page = InitPage
  /\ requests = <<>>
  /\ last = NoResponse
  /\ buffer = <<>>
  /\ table = <<>>
  /\ runStart = 0
  /\ error = "none"
  /\ load_info = NoInfo

\* ----------------------------------------------------------------- actions
\* The script is executed: pipeline.run(taxi_source()).
StartRun ==
  /\ pc \in {"idle", "done", "failed"}
  /\ runs < MaxRuns
  /\ runs' = runs + 1
  /\ pc' = "request"
  /\ page' = InitPage
  /\ requests' = <<>>
  /\ last' = NoResponse
  /\ buffer' = <<>>
  /\ runStart' = Len(table)
  /\ error' = "none"
  /\ load_info' = NoInfo
  /\ UNCHANGED <<endpoint, table>>

\* The request for the current page is issued.
SendRequest ==
  /\ pc = "request"
  /\ page <= PageCap
  /\ requests' = Append(requests, page)
  /\ pc' = "inflight"
  /\ UNCHANGED <<endpoint, runs, page, last, buffer, table, runStart, error,
                 load_info>>

\* A page arrives and the paginator asks for the next one.
ReceivePageContinue ==
  /\ pc = "inflight"
  /\ RespAt(page).kind = "page"
  /\ HasNextPage(RespAt(page), page, endpoint.total)
  /\ last' = RespAt(page)
  /\ buffer' = buffer \o Rows(page, RespAt(page).n)
  /\ page' = NextPage(page)
  /\ pc' = "request"
  /\ UNCHANGED <<endpoint, runs, requests, table, runStart, error, load_info>>

\* A page arrives and the paginator stops: the run completes, everything it
\* fetched is in the table, and run returns.
ReceivePageStop ==
  /\ pc = "inflight"
  /\ RespAt(page).kind = "page"
  /\ ~HasNextPage(RespAt(page), page, endpoint.total)
  /\ last' = RespAt(page)
  /\ table' = Write(table, buffer \o Rows(page, RespAt(page).n))
  /\ buffer' = <<>>
  /\ pc' = "done"
  /\ load_info' = Summary(Len(table') - runStart, Len(requests))
  /\ UNCHANGED <<endpoint, runs, page, requests, runStart, error>>

\* The request fails: the exception leaves pipeline.run and the script.
\* Fatal holds of both failures, so the run fails; a failure that was not
\* fatal would end the loop like an empty page.
ReceiveError ==
  /\ pc = "inflight"
  /\ RespAt(page).kind \in {"unreachable", "nonjson"}
  /\ last' = RespAt(page)
  /\ IF Fatal(RespAt(page))
     THEN /\ pc' = "failed"
          /\ error' = ErrorOf(RespAt(page))
          /\ buffer' = <<>>
          /\ UNCHANGED <<table, load_info>>
     ELSE /\ pc' = "done"
          /\ table' = Write(table, buffer)
          /\ buffer' = <<>>
          /\ load_info' = Summary(Len(table') - runStart, Len(requests))
          /\ UNCHANGED error
  /\ UNCHANGED <<endpoint, runs, page, requests, runStart>>

\* Rows fetched so far are written to the table while the run goes on.
Load ==
  /\ pc \in {"request", "inflight"}
  /\ buffer # <<>>
  /\ table' = Write(table, buffer)
  /\ buffer' = <<>>
  /\ UNCHANGED <<endpoint, pc, runs, page, requests, last, runStart, error,
                 load_info>>

\* The steps of a run in progress.
RunStep == SendRequest \/ ReceivePageContinue \/ ReceivePageStop \/ ReceiveError

Next ==
  \/ StartRun
  \/ SendRequest
  \/ ReceivePageContinue
  \/ ReceivePageStop
  \/ ReceiveError
  \/ Load

Spec == Init /\ [][Next]_vars

\* The loop is a blocking sequential loop: a run in progress takes its next
\* step.
FairSpec == Spec /\ WF_vars(RunStep)

\* ------------------------------------------------- what the endpoint holds
\* A page with records.
IsRecords(resp) == resp.kind = "page" /\ resp.n > 0

RECURSIVE Leading(_)
\* The number of consecutive pages with records from index i on.
Leading(i) ==
  IF i <= PageCap /\ IsRecords(RespAt(i)) THEN 1 + Leading(i + 1) ELSE 0

RECURSIVE SumSizes(_, _)
\* The number of records in the k pages from index i on.
SumSizes(i, k) == IF k = 0 THEN 0 ELSE RespAt(i).n + SumSizes(i + 1, k - 1)

\* How often a row is in a table.
Count(row, tbl) == Cardinality({i \in 1..Len(tbl) : tbl[i] = row})

\* The endpoint answers some index from p on with something other than a
\* page with records.
StopsFrom(p) == \E i \in p..PageCap : ~IsRecords(RespAt(i))

InRun == pc \in {"request", "inflight"}
Ended == pc \in {"done", "failed"}

\* ------------------------------------------------------------------ claims

\* C1: in one run the first request carries the base page index 1, every
\* later request carries an index strictly greater than the one before it,
\* and requests keep being issued until a page returns zero records: every
\* request but the last was answered by a page with records, and after such
\* a page the next request is pending.
C1_PageIndicesIncrease ==
  /\ BasePage = 1
  /\ requests # <<>> => requests[1] = BasePage
  /\ \A i \in 1..(Len(requests) - 1) :
       /\ requests[i + 1] > requests[i]
       /\ IsRecords(RespAt(requests[i]))
  /\ IsRecords(last) => pc = "request" \/ (pc = "inflight" /\ Len(requests) > 1)

C1_Witness ==
  pc = "done" /\ Len(requests) >= 3 /\ requests[3] > requests[2]

\* C2: the run ends without error exactly when the page just fetched holds
\* zero records; the total count the endpoint reports plays no part.
C2_EmptyPageSoleTermination ==
  /\ (pc = "done") <=> (last = Page(0))
  /\ pc = "done" => error = "none"
  /\ pc = "done" => \A i \in 1..(Len(requests) - 1) : IsRecords(RespAt(requests[i]))

C2_Witness ==
  pc = "done" /\ endpoint.total = 1 /\ Len(requests) = 3

\* C3: against an endpoint that returns k pages with records and then an
\* empty page, the completed run reports the sum of the k page sizes as
\* records loaded and k + 1 as pages fetched, and the table has grown by
\* that sum.
C3_SummaryCounts ==
  pc = "done" =>
    LET k == Leading(BasePage) IN
      /\ load_info = Summary(SumSizes(BasePage, k), k + 1)
      /\ Len(table) - runStart = SumSizes(BasePage, k)
      /\ Len(requests) = k + 1

\* Three full pages and an empty one: 3 * page size loaded, 4 pages fetched.
C3_Witness ==
  /\ pc = "done"
  /\ \A i \in 1..3 : RespAt(i) = Page(MaxPageSize)
  /\ RespAt(4) = Page(0)
  /\ load_info = Summary(3 * MaxPageSize, 4)

\* C5: when the endpoint returns a non-JSON body the run fails with
\* DecodeError, when it is unreachable the run fails with NetworkError, and
\* in both cases no record is loaded and run returns nothing.
C5_FailureLoadsNothing ==
  /\ (Ended /\ RespAt(BasePage) = NonJson) =>
       /\ pc = "failed" /\ error = "DecodeError"
       /\ table = <<>> /\ buffer = <<>> /\ load_info = NoInfo
  /\ (Ended /\ RespAt(BasePage) = Unreachable) =>
       /\ pc = "failed" /\ error = "NetworkError"
       /\ table = <<>> /\ buffer = <<>> /\ load_info = NoInfo

C5_Witness ==
  /\ pc = "failed" /\ error = "DecodeError" /\ runs = MaxRuns
  /\ requests = <<BasePage>> /\ table = <<>>

\* C7: the table is append-only (every step leaves the rows already in it
\* in place, in order), and runs are not idempotent: after r completed runs
\* against the same endpoint data each record fetched is in the table r
\* times, and nothing else is.
C7_AppendOnlyAcrossRuns ==
  /\ [][/\ Len(table') >= Len(table)
        /\ SubSeq(table', 1, Len(table)) = table]_vars
  /\ [](pc = "done" =>
         \A p \in BasePage..PageCap : \A k \in 1..MaxPageSize :
           Count(<<p, k>>, table) =
             IF p < BasePage + Leading(BasePage) /\ k <= RespAt(p).n
             THEN runs ELSE 0)

C7_Witness ==
  /\ pc = "done" /\ runs = 2
  /\ Count(<<1, 1>>, table) = 2 /\ Count(<<2, 1>>, table) = 2

\* C9: when the first empty page is at index i and pages with records exist
\* above i, no index above i is requested, no record of a page above i is
\* fetched or loaded, and the run ends as a success with its summary.
C9_EmptyPageEndsRunShort ==
  \A i \in BasePage..MaxPages :
    ( /\ i = BasePage + Leading(BasePage)
      /\ RespAt(i) = Page(0)
      /\ \E j \in (i + 1)..(MaxPages + 1) : IsRecords(RespAt(j)) )
    =>
    /\ \A r \in 1..Len(requests) : requests[r] <= i
    /\ \A t \in 1..Len(table) : table[t][1] < i
    /\ \A t \in 1..Len(buffer) : buffer[t][1] < i
    /\ pc # "failed" /\ error = "none"
    /\ Ended =>
         /\ pc = "done" /\ load_info # NoInfo
         /\ requests[Len(requests)] = i

C9_Witness ==
  /\ pc = "done"
  /\ IsRecords(RespAt(1)) /\ RespAt(2) = Page(0) /\ IsRecords(RespAt(3))
  /\ requests = <<1, 2>>

\* C10: a run in progress ends (completed or failed) whenever the endpoint
\* answers some index from the current one on with an empty page or an
\* error; against an endpoint that answers every index with records no run
\* ever ends, and every answer moves the run to a request for the next
\* index.
C10_Termination ==
  /\ (InRun /\ StopsFrom(page)) ~> Ended
  /\ [](~StopsFrom(BasePage) => ~Ended)
  /\ [][(~StopsFrom(BasePage) /\ pc = "inflight" /\ pc' # "inflight") =>
          (pc' = "request" /\ page' = page + 1)]_vars

C10_Witness ==
  ~StopsFrom(BasePage) /\ pc = "request" /\ page > PageCap /\ runs = 1

====
